---- MODULE Spec2Model ----
(***************************************************************************)
(* rose_draw.py: animate_rose reveals a growing prefix of a sampled rose   *)
(* curve, one update callback per frame, with a percent label; optionally  *)
(* the animation is exported before the interactive display.               *)
(*                                                                         *)
(* Numbers.  speed is a float; the model carries it in hundredths          *)
(* (speedH = 100 * speed), so 240 / max(0.1, speed) is the rational        *)
(* 24000 / max(10, speedH) and int() of it is the truncated quotient.  On  *)
(* the grid used here the double-precision quotient truncates to the same  *)
(* integer as the exact one, and int(100 * i / len(x)) equals the exact    *)
(* floor of 100 * i / len(x).                                              *)
(*                                                                         *)
(* The point sequence x, y is immutable and only its length matters to the *)
(* scheduling: points = len(x), lineLen = length of the prefix handed to   *)
(* line.set_data.                                                          *)
(***************************************************************************)
EXTENDS Integers, Sequences, FiniteSets, TLC

VARIABLES
    points,         \* len(x): animate_rose's points argument
    speedH,         \* animate_rose's speed argument, in hundredths
    save,           \* animate_rose's save argument: <<>> is None, <<p>> is the string p
    frames,         \* local frames (0 until line 44 has run)
    idx_per_frame,  \* local idx_per_frame (0 until line 45 has run)
    pc,             \* position in animate_rose
    lastCall,       \* the callback the driver ran last: "none", "init", "update"
    frame,          \* argument of the last update call (-1: none since init)
    lineLen,        \* number of points held by the artist `line`
    pct,            \* update's local pct, as last computed (0: none yet)
    pct_text,       \* text of the artist pct_text
    title,          \* window title
    printed,        \* what animate_rose has printed
    exportAttempts, \* number of anim.save calls made
    exportOutcome,  \* "none", "ok", or the exception class anim.save raised
    probe,          \* history: the frame index whose displays are recorded
    probeShown,     \* history: every <<lineLen, pct_text, title>> shown for frame probe
    probeCalls      \* history: number of update(probe) calls, counted up to MaxProbeCalls

vars == <<points, speedH, save, frames, idx_per_frame, pc, lastCall, frame,
          lineLen, pct, pct_text, title, printed, exportAttempts, exportOutcome,
          probe, probeShown, probeCalls>>

argVars     == <<points, speedH, save>>
localVars   == <<frames, idx_per_frame>>
displayVars == <<lastCall, frame, lineLen, pct, pct_text, title>>
exportVars  == <<printed, exportAttempts, exportOutcome>>
histVars    == <<probe, probeShown, probeCalls>>

----------------------------------------------------------------------------
(* Bounds of the model *)

MaxPoints == 130
ExamplePoints == 1000
MaxSpeedH == 500
NegSpeedH == 3
SpeedStride == 100
MaxProbe == 59
ProbeStride == 6
MaxProbeCalls == 2
ReplayStride == 43

(* Constants of the program *)

base_frames == 240
min_frames == 60
min_speed_h == 10
default_points == 3000

Max(a, b) == IF a >= b THEN a ELSE b
Min(a, b) == IF a <= b THEN a ELSE b

----------------------------------------------------------------------------
(* The arithmetic of animate_rose *)

\* int(q) for the rational q = num / den, den > 0: truncation toward zero.
TruncDiv(num, den) ==
    IF num >= 0 THEN num \div den ELSE 0 - ((0 - num) \div den)

\* round(q) for the rational q = num / den >= 0: nearest integer, ties to even.
RoundDiv(num, den) ==
    LET q == num \div den
        r == num % den
    IN  IF 2 * r < den THEN q
        ELSE IF 2 * r > den THEN q + 1
        ELSE IF q % 2 = 0 THEN q ELSE q + 1

FrameCountRounded(sH) ==
    Max(min_frames, RoundDiv(base_frames * 100, Max(min_speed_h, sH)))

FrameCountUnclamped(sH) ==
    Max(min_frames, TruncDiv(base_frames * 100, IF sH > 0 THEN sH ELSE 1))

\* frames = max(60, int(base_frames / max(0.1, speed)))
FrameCount(sH) ==
    Max(min_frames, TruncDiv(base_frames * 100, Max(min_speed_h, sH)))

IdxPerFrameNoFloor(n, f) == n \div f

IdxPerFrameCeil(n, f) == Max(1, (n + f - 1) \div f)

\* idx_per_frame = max(1, len(x) // frames)
IdxPerFrame(n, f) == Max(1, n \div f)

RevealedCountUncapped(n, ipf, f) == (f + 1) * ipf

\* i = min(len(x), (frame + 1) * idx_per_frame)
RevealedCount(n, ipf, f) == Min(n, (f + 1) * ipf)

PercentRounded(i, n) == RoundDiv(100 * i, n)

\* pct = int(100 * i / len(x))
Percent(i, n) == TruncDiv(100 * i, n)

\* f"{pct}%"
PctLabel(p) == ToString(p) \o "%"

\* f"Rose Drawing - {pct}%" (the source's dash is an em dash)
WindowTitle(p) == "Rose Drawing - " \o ToString(p) \o "%"

\* Python truth value of the save argument (None and "" are false)
Truthy(s) == s # <<>> /\ s[1] # ""

\* except Exception catches every exception class but the ones that derive
\* from BaseException only (KeyboardInterrupt, SystemExit)
ExceptionKinds == {"OSError", "ValueError"}
BaseOnlyKinds == {"KeyboardInterrupt"}

----------------------------------------------------------------------------
(* The callbacks handed to FuncAnimation *)

initKeepsLine ==
    /\ pct_text' = "0%"
    /\ lastCall' = "init"
    /\ frame' = -1
    /\ UNCHANGED <<lineLen, pct, title, histVars>>

\* init(): line.set_data([], []); pct_text.set_text("0%")
init ==
    /\ lineLen' = 0
    /\ pct_text' = "0%"
    /\ lastCall' = "init"
    /\ frame' = -1
    /\ UNCHANGED <<pct, title, histVars>>

RevealIndexAccumulated(f) == Min(points, lineLen + idx_per_frame)

\* the local i of update(frame), computed from the closure's x and idx_per_frame
RevealIndex(f) == RevealedCount(points, idx_per_frame, f)

\* update(frame): set the line to x[:i], y[:i], the label and the window title
update(f) ==
    LET i == RevealIndex(f)
        p == Percent(i, points)
    IN  /\ lineLen' = i
        /\ pct' = p
        /\ pct_text' = PctLabel(p)
        /\ title' = WindowTitle(p)
        /\ lastCall' = "update"
        /\ frame' = f
        /\ probeShown' = IF f = probe
                           THEN probeShown \cup {<<i, PctLabel(p), WindowTitle(p)>>}
                           ELSE probeShown
        /\ probeCalls' = IF f = probe
                           THEN Min(MaxProbeCalls, probeCalls + 1)
                           ELSE probeCalls
        /\ UNCHANGED probe

----------------------------------------------------------------------------
(* animate_rose *)

\* lines 43-45 and 60: frames, idx_per_frame, the FuncAnimation object
Derive ==
    /\ pc = "args"
    /\ frames' = FrameCount(speedH)
    /\ idx_per_frame' = IdxPerFrame(points, FrameCount(speedH))
    /\ pc' = "constructed"
    /\ UNCHANGED <<argVars, displayVars, exportVars, histVars>>

\* line 62, save is true: anim.save is called
BeginSave ==
    /\ pc = "constructed"
    /\ Truthy(save)
    /\ exportAttempts' = exportAttempts + 1
    /\ pc' = "save_init"
    /\ UNCHANGED <<argVars, localVars, displayVars, printed, exportOutcome, histVars>>

\* line 62, save is None or "": straight to plt.show()
SkipSave ==
    /\ pc = "constructed"
    /\ ~Truthy(save)
    /\ pc' = "show_init"
    /\ UNCHANGED <<argVars, localVars, displayVars, exportVars, histVars>>

\* anim.save draws the initial frame through init_func
SaveInit ==
    /\ pc = "save_init"
    /\ init
    /\ pc' = "saving"
    /\ UNCHANGED <<argVars, localVars, exportVars>>

\* anim.save grabs the frames 0 .. frames-1 in order
SaveFrame ==
    /\ pc = "saving"
    /\ frame + 1 < frames
    /\ update(frame + 1)
    /\ UNCHANGED <<pc, argVars, localVars, exportVars>>

\* anim.save returns; line 66 prints
SaveDone ==
    /\ pc = "saving"
    /\ frame = frames - 1
    /\ exportOutcome' = "ok"
    /\ printed' = Append(printed, "Saved animation to " \o save[1])
    /\ pc' = "show_init"
    /\ UNCHANGED <<argVars, localVars, displayVars, exportAttempts, histVars>>

SaveRaisesUncaught(k) ==
    /\ pc \in {"save_init", "saving"}
    /\ exportOutcome' = k
    /\ pc' = "raised"
    /\ UNCHANGED <<argVars, localVars, displayVars, exportAttempts, printed, histVars>>

\* anim.save raises an exception of class k at some point of the export;
\* lines 67-68 catch it when it derives from Exception
SaveRaises(k) ==
    /\ pc \in {"save_init", "saving"}
    /\ exportOutcome' = k
    /\ IF k \in ExceptionKinds
         THEN /\ printed' = Append(printed, "Could not save GIF: " \o k)
              /\ pc' = "show_init"
         ELSE /\ printed' = printed
              /\ pc' = "raised"
    /\ UNCHANGED <<argVars, localVars, displayVars, exportAttempts, histVars>>

\* plt.show(): the first draw of the window runs init_func
ShowInit ==
    /\ pc = "show_init"
    /\ init
    /\ pc' = "showing"
    /\ UNCHANGED <<argVars, localVars, exportVars>>

\* plt.show(): the timer steps through the frames 0 .. frames-1 (repeat=False)
ShowFrame ==
    /\ pc = "showing"
    /\ frame + 1 < frames
    /\ update(frame + 1)
    /\ UNCHANGED <<pc, argVars, localVars, exportVars>>

\* the window is closed; plt.show() and animate_rose return
Close ==
    /\ pc \in {"show_init", "showing"}
    /\ pc' = "returned"
    /\ UNCHANGED <<argVars, localVars, displayVars, exportVars, histVars>>

\* a driver free to run the callbacks in any order, with repeats
AnyInit ==
    /\ pc \in {"show_init", "showing"}
    /\ init
    /\ pc' = "showing"
    /\ UNCHANGED <<argVars, localVars, exportVars>>

AnyUpdate ==
    /\ pc = "showing"
    /\ \E f \in 0 .. frames - 1 : update(f)
    /\ UNCHANGED <<pc, argVars, localVars, exportVars>>

----------------------------------------------------------------------------
(* Specifications *)

\* the state at line 37: empty line, label "0%", nothing derived yet
Start ==
    /\ frames = 0
    /\ idx_per_frame = 0
    /\ pc = "args"
    /\ lastCall = "none"
    /\ frame = -1
    /\ lineLen = 0
    /\ pct = 0
    /\ pct_text = "0%"
    /\ title = "Figure 1"
    /\ printed = <<>>
    /\ exportAttempts = 0
    /\ exportOutcome = "none"
    /\ probeShown = {}
    /\ probeCalls = 0

SavePaths == {<<>>, <<"">>, <<"out.gif">>}

SessionPoints == (1 .. MaxPoints) \cup {ExamplePoints, default_points}

SessionSpeeds == {s \in 1 .. MaxSpeedH : s % SpeedStride = 0}

\* a session as FuncAnimation drives it: export pass, then playback
Init ==
    /\ points \in SessionPoints
    /\ speedH \in SessionSpeeds
    /\ save \in SavePaths
    /\ probe = 0
    /\ Start

Next ==
    \/ Derive
    \/ BeginSave
    \/ SkipSave
    \/ SaveInit
    \/ SaveFrame
    \/ SaveDone
    \/ \E k \in ExceptionKinds \cup BaseOnlyKinds : SaveRaises(k)
    \/ ShowInit
    \/ ShowFrame
    \/ Close

Spec == Init /\ [][Next]_vars

\* the derivation of frames and idx_per_frame over the whole speed grid
InitDerive ==
    /\ points \in {MaxPoints, ExamplePoints, default_points}
    /\ speedH \in (0 - NegSpeedH) .. MaxSpeedH
    /\ save = <<>>
    /\ probe = 0
    /\ Start

NextDerive == Derive

SpecDerive == InitDerive /\ [][NextDerive]_vars

\* the callbacks under a driver that calls them in any order
ReplayPoints == {p \in 1 .. MaxPoints : p % ReplayStride = 0} \cup {MaxPoints}

ProbeFrames == {f \in 0 .. MaxProbe : f % ProbeStride = 0} \cup {MaxProbe}

InitAnyOrder ==
    /\ points \in ReplayPoints
    /\ speedH = MaxSpeedH
    /\ save = <<>>
    /\ probe \in ProbeFrames
    /\ Start

NextAnyOrder ==
    \/ Derive
    \/ SkipSave
    \/ AnyInit
    \/ AnyUpdate

SpecAnyOrder == InitAnyOrder /\ [][NextAnyOrder]_vars

----------------------------------------------------------------------------
(* Claims *)

\* C1 (as stated): when update has run for the last frame, frames - 1, the
\* whole curve is on display: lineLen = points and the label reads 100%.
C1_LastFrameRevealsAll ==
    (lastCall = "update" /\ frame = frames - 1)
        => (lineLen = points /\ pct_text = "100%")

\* C2 (as stated): for every positive speed, frames is
\* max(60, round(240 / max(0.1, speed))), the quotient rounded to nearest.
C2_FrameCountIsRounded ==
    (pc = "constructed" /\ speedH > 0)
        => /\ frames >= 60
           /\ frames = Max(60, RoundDiv(24000, Max(10, speedH)))

\* C2 (amended): for every positive speed, frames is never below 60 and is
\* max(60, q) with q the quotient 240 / max(0.1, speed) truncated to an
\* integer: q * d <= 24000 < (q + 1) * d for d = max(10, speedH).
C2_FrameCountIsTruncated ==
    (pc = "constructed" /\ speedH > 0)
        => LET d == Max(10, speedH)
           IN  /\ frames >= 60
               /\ IF 60 * d <= 24000
                    THEN frames * d <= 24000 /\ 24000 < (frames + 1) * d
                    ELSE frames = 60

\* speed = 0.7: 240 / 0.7 = 342.857..., and frames is 342, not 343
C2_Witness ==
    pc = "constructed" /\ speedH = 70 /\ frames = 342

\* C3 (as stated): every update for the next frame shows strictly more points
\* than were on display before it (frame 0 shows at least one point, every
\* later frame more than its predecessor).
C3_EveryFrameRevealsNew ==
    [][(lastCall' = "update" /\ frame' = frame + 1) => lineLen' > lineLen]_vars

\* C3 (amended): every update for the next frame shows strictly more points
\* than were on display before it, as long as points were left to reveal.
C3_NewPointWhileIncomplete ==
    [][(lastCall' = "update" /\ frame' = frame + 1 /\ lineLen < points)
          => lineLen' > lineLen]_vars

\* frames exceeds points, idx_per_frame is 1 and frame 1 has shown a second point
C3_Witness ==
    /\ frames > points
    /\ idx_per_frame = 1
    /\ lastCall = "update"
    /\ frame = 1
    /\ lineLen = 2

\* C4: the number of points on display is always within 0 .. points, after
\* update(f) it is min(points, (f + 1) * idx_per_frame), and an update for a
\* higher frame index never shows fewer points than one for a lower index.
C4_RevealMonotoneBounded ==
    [][/\ lineLen \in 0 .. points
       /\ lineLen' \in 0 .. points'
       /\ lastCall' = "update"
            => lineLen' = Min(points', (frame' + 1) * idx_per_frame')
       /\ (lastCall = "update" /\ lastCall' = "update" /\ frame < frame')
            => lineLen <= lineLen']_vars

\* the cap is in force: the whole curve is shown before the last frame
C4_Witness ==
    /\ lastCall = "update"
    /\ frame < frames - 1
    /\ (frame + 1) * idx_per_frame > points
    /\ lineLen = points

\* C5: after every update the label and the window title show
\* floor(100 * lineLen / points), an integer in 0 .. 100 that is 100 exactly
\* when the whole curve is shown and that never decreases from one frame to
\* a later one.
C5_PercentShown ==
    [][lastCall' = "update"
         => /\ pct' \in 0 .. 100
            /\ pct' * points' <= 100 * lineLen'
            /\ 100 * lineLen' < (pct' + 1) * points'
            /\ pct_text' = ToString(pct') \o "%"
            /\ title' = "Rose Drawing - " \o ToString(pct') \o "%"
            /\ (pct' = 100 <=> lineLen' = points')
            /\ (lastCall = "update" /\ frame < frame') => pct <= pct']_vars

\* a frame whose exact percentage has a fraction that the label drops
C5_Witness ==
    /\ lastCall = "update"
    /\ pct > 0
    /\ pct < 100
    /\ pct * points < 100 * lineLen
    /\ pct_text = ToString(pct) \o "%"

\* C6: anim.save is called at most once, and never when save is None or
\* empty; when it raises an Exception, the diagnostic is printed and
\* animate_rose is at or past plt.show(), the exception not propagated.
C6_ExportBestEffort ==
    /\ exportAttempts <= 1
    /\ ~Truthy(save) => (exportAttempts = 0 /\ exportOutcome = "none")
    /\ exportOutcome \in ExceptionKinds
         => /\ pc \in {"show_init", "showing", "returned"}
            /\ printed = <<"Could not save GIF: " \o exportOutcome>>

\* the export failed and the playback still ran to its last frame
C6_Witness ==
    /\ exportOutcome = "OSError"
    /\ exportAttempts = 1
    /\ pc = "showing"
    /\ lastCall = "update"
    /\ frame = frames - 1

\* C7: a speed below 0.1 gives the frames, the idx_per_frame and the
\* revealed count of every frame that speed = 0.1 gives.
C7_SpeedClamp ==
    (pc = "constructed" /\ speedH < min_speed_h)
        => /\ frames = FrameCount(min_speed_h)
           /\ idx_per_frame = IdxPerFrame(points, FrameCount(min_speed_h))
           /\ \A f \in 0 .. frames - 1 :
                RevealedCount(points, idx_per_frame, f)
                  = RevealedCount(points,
                                  IdxPerFrame(points, FrameCount(min_speed_h)), f)

\* speed = 0.01
C7_Witness ==
    pc = "constructed" /\ speedH = 1 /\ frames = 2400

\* C8: before any update has run, and whenever init was the last callback,
\* the line is empty and the label reads 0%.
C8_InitialDisplay ==
    lastCall \in {"none", "init"} => (lineLen = 0 /\ pct_text = "0%")

\* init ran for the playback after the export pass had drawn all its frames
C8_Witness ==
    /\ lastCall = "init"
    /\ pc = "showing"
    /\ exportOutcome = "ok"
    /\ pct > 0
    /\ lineLen = 0

\* C9: whatever callbacks ran before, update(probe) displays one and the same
\* prefix length, label and title.
C9_UpdateDependsOnFrameOnly ==
    /\ Cardinality(probeShown) <= 1
    /\ (lastCall = "update" /\ frame = probe)
         => probeShown = {<<lineLen, pct_text, title>>}

\* update(probe) has run at least twice, the last time just now
C9_Witness ==
    /\ probeCalls = MaxProbeCalls
    /\ probe > 0
    /\ lastCall = "update"
    /\ frame = probe
    /\ Cardinality(probeShown) = 1

\* C10: after the update for the last frame the line holds
\* points - (points mod frames) points when points >= frames, and all of them
\* when points < frames; fewer than frames points are left out.
C10_ResidualTail ==
    (lastCall = "update" /\ frame = frames - 1)
        => /\ lineLen = IF points >= frames
                          THEN points - (points % frames)
                          ELSE points
           /\ points - lineLen >= 0
           /\ points - lineLen < frames

\* a last frame that leaves a tail undrawn
C10_Witness ==
    /\ lastCall = "update"
    /\ frame = frames - 1
    /\ points >= frames
    /\ points % frames # 0
    /\ lineLen < points

====
